---- MODULE Spec2Model ----
(***************************************************************************)
(* Model of the creator-ranking backend (app/main.py): the POST /api/rank  *)
(* handler get_rank, the sequential Mastodon lookup fetch_mastodon_stats,  *)
(* the demo fallback generate_demo_stats, the scorer calculate_score and   *)
(* the rank mapper calculate_global_rank.                                  *)
(*                                                                         *)
(* Strings are sequences of one-character strings.  A score is carried in  *)
(* hundredths (the value round(score, 2) * 100), and the arithmetic the    *)
(* code does in binary floating point is done here exactly, over the       *)
(* rationals; the code's float results can differ from the exact ones by   *)
(* one unit in the last place kept (an exact tie in round(), a value just  *)
(* below an integer in int()).                                             *)
(***************************************************************************)
EXTENDS Integers, Sequences, FiniteSets, TLC

VARIABLES
    pc,               \* "idle" | "fetch" | "done": position of the handler
    handle,           \* request.handle, as received
    stripped,         \* fetch_mastodon_stats' local `handle` after lstrip('@')
    username,         \* the acct parameter of the lookup
    instances_to_try, \* the list the for loop iterates over
    idx,              \* 1-based position of the for loop
    queried,          \* the instances a GET was sent to, in order
    nfailed,          \* how many of the answers so far count as failed
    alldown,          \* every GET of this request so far raised (unreachable)
    lastkind,         \* what the latest answer was: see AnswerKind
    winner,           \* the answer whose stats were returned, or NoAnswer
    stats,            \* the dict fetch_mastodon_stats returned, or NoStats
    response,         \* the HTTP response of the request
    user_rankings,    \* module-level dict: score -> number of times seen
    log,              \* the responses served by this process, oldest first
    served,           \* number of requests accepted by this process
    \* calculate_global_rank applied to two scores
    s1, s2,           \* the scores, in hundredths, s1 <= s2
    r1, r2,           \* their ranks, 0 before the call
    rpc,              \* "in" before the calls, "out" after
    \* calculate_score applied to two inputs that differ in one argument
    lo, hi,           \* the inputs; hi is lo with the argument `arg` raised
    arg,              \* "followers" | "following" | "tweets" | "impressions"
    sc_lo, sc_hi,     \* the scores, in hundredths, -1 before the call
    spc               \* "in" before the calls, "out" after

pipeline_vars == <<pc, handle, stripped, username, instances_to_try, idx, queried,
                   nfailed, alldown, lastkind, winner, stats, response, user_rankings,
                   log, served>>
rank_vars == <<s1, s2, r1, r2, rpc>>
score_vars == <<lo, hi, arg, sc_lo, sc_hi, spc>>

----------------------------------------------------------------------------
(* Bounds of the model *)

\* most "@" put in front of a handle body
MaxAt == 2
\* most blanks put behind a handle body
MaxSpace == 1
\* most requests one process serves in SpecSession
MaxRequests == 3

----------------------------------------------------------------------------
(* Python values *)

Min(a, b) == IF a <= b THEN a ELSE b
Max(a, b) == IF a >= b THEN a ELSE b

\* a JSON number (an int), JSON null / a string (any value arithmetic and
\* comparison with a number reject with TypeError), an absent key
Num(n) == [t |-> "int", v |-> n]
Null == [t |-> "null", v |-> 0]
Missing == [t |-> "missing", v |-> 0]
IsNum(x) == x.t = "int"

\* ord(c) of the characters handles are built from
Ord(c) ==
    CASE c = "@" -> 64
      [] c = " " -> 32
      [] c = "a" -> 97
      [] c = "b" -> 98
      [] c = "B" -> 66
      [] c = "m" -> 109

\* str.lower(), one character
LowerChar(c) == IF c = "B" THEN "b" ELSE c

\* handle.lstrip('@'): every leading "@" is removed, nothing else
RECURSIVE lstrip_at(_)
lstrip_at(s) ==
    IF s # <<>> /\ Head(s) = "@" THEN lstrip_at(Tail(s)) ELSE s

\* '@' in handle
HasAt(s) == \E i \in 1..Len(s) : s[i] = "@"

\* index of the first "@" of a string that has one
FirstAt(s) == CHOOSE i \in 1..Len(s) : s[i] = "@" /\ \A j \in 1..(i - 1) : s[j] # "@"

\* handle.split('@', 1)
SplitUser(s) == SubSeq(s, 1, FirstAt(s) - 1)
SplitDomain(s) == SubSeq(s, FirstAt(s) + 1, Len(s))

\* sum(ord(c) for c in handle.lower())
RECURSIVE handle_hash(_)
handle_hash(s) ==
    IF s = <<>> THEN 0 ELSE Ord(LowerChar(Head(s))) + handle_hash(Tail(s))

----------------------------------------------------------------------------
(* Module-level constants *)

MASTODON_INSTANCES ==
    << <<"https://mastodon.social">>, <<"https://mstdn.social">>,
       <<"https://mastodon.online">>, <<"https://fosstodon.org">>,
       <<"https://mas.to">>, <<"https://techhub.social">>,
       <<"https://mastodon.world">>, <<"https://infosec.exchange">> >>

TOTAL_USERS == 15000000

\* the ceiling of min(..., 10) in calculate_score
FACTOR_CAP == 10

----------------------------------------------------------------------------
(* generate_demo_stats *)

generate_demo_stats(h) ==
    LET hh == handle_hash(h)
        base_followers == ((hh * 137) % 500000) + 10000
        base_following == ((hh * 73) % 5000) + 500
        base_tweets == ((hh * 97) % 50000) + 1000
        base_impressions == base_followers * ((hh % 10) + 5)
    IN  [followers |-> Num(base_followers), following |-> Num(base_following),
         tweets |-> Num(base_tweets), impressions |-> Num(base_impressions)]

----------------------------------------------------------------------------
(* calculate_score: the result in hundredths *)

\* round-half-even of q + r/m, for 0 <= r < 2m
RoundHalfEven(q, r, m) ==
    LET base == q + (r \div m)
        rem == r % m
    IN  IF 2 * rem < m THEN base
        ELSE IF 2 * rem > m THEN base + 1
        ELSE IF base % 2 = 0 THEN base ELSE base + 1

\* calculate_score with the engagement ratio taken upside down
\* (following / followers)
calculate_score_inverted(followers, following, tweets, impressions) ==
    LET denom == Max(followers, 1)
        ratio_num == Min(following, FACTOR_CAP * denom)
        content_num == Min(tweets, FACTOR_CAP * 1000)
        linear == 40 * followers + 3 * impressions + 10 * content_num
        ratio == 20 * ratio_num
        whole == (linear \div 1000) + (ratio \div denom)
        frac_num == (linear % 1000) * denom + 1000 * (ratio % denom)
    IN  RoundHalfEven(whole, frac_num, 1000 * denom)

\* calculate_score without the min(..., 10) around tweets / 1000
calculate_score_uncapped_content(followers, following, tweets, impressions) ==
    LET denom == Max(following, 1)
        ratio_num == Min(followers, FACTOR_CAP * denom)
        linear == 40 * followers + 3 * impressions + 10 * tweets
        ratio == 20 * ratio_num
        whole == (linear \div 1000) + (ratio \div denom)
        frac_num == (linear % 1000) * denom + 1000 * (ratio % denom)
    IN  RoundHalfEven(whole, frac_num, 1000 * denom)

calculate_score(followers, following, tweets, impressions) ==
    LET denom == Max(following, 1)
        \* engagement_ratio = min(followers / denom, 10), kept as ratio_num / denom
        ratio_num == Min(followers, FACTOR_CAP * denom)
        \* content_score = min(tweets / 1000, 10), kept as content_num / 1000
        content_num == Min(tweets, FACTOR_CAP * 1000)
        \* 100 * score = (40*followers + 3*impressions + 10*content_num) / 1000
        \*               + 20 * ratio_num / denom
        linear == 40 * followers + 3 * impressions + 10 * content_num
        ratio == 20 * ratio_num
        whole == (linear \div 1000) + (ratio \div denom)
        frac_num == (linear % 1000) * denom + 1000 * (ratio % denom)
    IN  RoundHalfEven(whole, frac_num, 1000 * denom)

----------------------------------------------------------------------------
(* calculate_global_rank, score in hundredths *)

\* the if / elif chain with the 50..100 band starting from the base of the
\* 10..50 band
band_rank_misbased(score) ==
    IF score >= 10000 THEN 1 + 15 * (20000 - score)
    ELSE IF score >= 5000 THEN 1500000 + 270 * (10000 - score)
    ELSE IF score >= 1000 THEN 1500000 + 1500 * (5000 - score)
    ELSE 7500000 + 7500 * (1000 - score)

\* the if / elif chain; the quotients are integers for a two-decimal score
band_rank(score) ==
    IF score >= 10000 THEN 1 + 15 * (20000 - score)
    ELSE IF score >= 5000 THEN 150000 + 270 * (10000 - score)
    ELSE IF score >= 1000 THEN 1500000 + 1500 * (5000 - score)
    ELSE 7500000 + 7500 * (1000 - score)

\* the clamp without its lower end
clamp_rank_upper_only(rank) == Min(rank, TOTAL_USERS)

\* rank = max(1, min(rank, 15000000))
clamp_rank(rank) == Max(1, Min(rank, TOTAL_USERS))

calculate_global_rank(score) == clamp_rank(band_rank(score))

\* user_rankings[score] = user_rankings.get(score, 0) + 1
record_score(rankings, score) ==
    IF score \in DOMAIN rankings
    THEN [rankings EXCEPT ![score] = @ + 1]
    ELSE [s \in DOMAIN rankings \cup {score} |->
            IF s = score THEN 1 ELSE rankings[s]]

----------------------------------------------------------------------------
(* Inputs of the model *)

\* n copies of the character c
RECURSIVE Rep(_, _)
Rep(c, n) == IF n = 0 THEN <<>> ELSE <<c>> \o Rep(c, n - 1)

\* handle bodies: empty, a plain name, a name with an upper-case letter, a
\* federated handle user@domain, a name with a leading blank
Bodies == { <<>>, <<"a">>, <<"B", "a">>, <<"a", "@", "m">>, <<" ", "a">> }

Handles ==
    { Rep("@", k) \o b \o Rep(" ", m) : k \in 0..MaxAt, b \in Bodies, m \in 0..MaxSpace }

\* the numbers an instance reports
Counts == {-3, 0, 2, 40, 250}

FieldValues == {Missing, Null} \cup {Num(n) : n \in Counts}

\* what one GET {instance}/api/v1/accounts/lookup can do: raise (connection
\* error, timeout), answer with a status other than 200, answer 200 with a
\* body that is not JSON, answer 200 with a JSON object
ConnError ==
    [exc |-> TRUE, status_code |-> 0, is_json |-> FALSE,
     followers_count |-> Missing, following_count |-> Missing, statuses_count |-> Missing]
HttpStatus(code) == [ConnError EXCEPT !.exc = FALSE, !.status_code = code]
NotJson == [HttpStatus(200) EXCEPT !.is_json = FALSE]
Json(f, g, p) ==
    [exc |-> FALSE, status_code |-> 200, is_json |-> TRUE,
     followers_count |-> f, following_count |-> g, statuses_count |-> p]

Answers ==
    {ConnError, HttpStatus(404), HttpStatus(503), NotJson}
    \cup {Json(f, g, p) : f \in FieldValues, g \in FieldValues, p \in FieldValues}

NoStats == [followers |-> Null, following |-> Null, tweets |-> Null, impressions |-> Null]
NoAnswer == [ConnError EXCEPT !.status_code = -1]
NoResponse == [status |-> 0]

----------------------------------------------------------------------------
(* fetch_mastodon_stats *)

\* data.get(key, 0)
dict_get(value) == IF value = Missing THEN Num(0) ELSE value

\* int(x) of the quotient n / d, d > 0: truncation toward zero
TruncDiv(n, d) == IF n >= 0 THEN n \div d ELSE -((-n) \div d)

\* int(followers * 0.075 * min(posts, 100)), then max(impressions, followers)
estimate_impressions(followers, posts) ==
    Max(TruncDiv(3 * followers * Min(posts, 100), 40), followers)

\* the validation with `and` in place of `or`
valid_stats_both(followers, posts) == followers > 0 /\ posts > 0

\* if followers > 0 or posts > 0
valid_stats(followers, posts) == followers > 0 \/ posts > 0

\* the body of one iteration of the for loop, after the GET returned or
\* raised: the stats it returns, or NoStats when the loop goes on (an
\* exception caught by `except Exception`, a status other than 200, stats
\* that fail the validation)
fetch_attempt(ans) ==
    IF ans.exc THEN NoStats
    ELSE IF ans.status_code # 200 THEN NoStats
    ELSE IF ~ans.is_json THEN NoStats
    ELSE LET followers == dict_get(ans.followers_count)
             following == dict_get(ans.following_count)
             posts == dict_get(ans.statuses_count)
         IN  IF ~IsNum(followers) \/ ~IsNum(posts) THEN NoStats
             ELSE IF valid_stats(followers.v, posts.v)
                  THEN [followers |-> followers, following |-> following,
                        tweets |-> posts,
                        impressions |-> Num(estimate_impressions(followers.v, posts.v))]
                  ELSE NoStats

\* how an answer reads to an observer of the upstream traffic: the GET or
\* the handling of its body raised; the status was not 200; a 200 whose
\* counts show nothing positive; a 200 with followers > 0 or posts > 0
AnswerKind(ans) ==
    IF ans.exc \/ (ans.status_code = 200 /\ ~ans.is_json) THEN "raised"
    ELSE IF ans.status_code # 200 THEN "non200"
    ELSE IF ans.followers_count = Null \/ ans.statuses_count = Null THEN "raised"
    ELSE IF dict_get(ans.followers_count).v > 0 \/ dict_get(ans.statuses_count).v > 0
         THEN "found"
    ELSE "empty"

\* lines 84-90: the instances the loop iterates over
instances_for(h) ==
    IF HasAt(h) THEN << <<"https://">> \o SplitDomain(h) >> ELSE MASTODON_INSTANCES

username_for(h) == IF HasAt(h) THEN SplitUser(h) ELSE h

----------------------------------------------------------------------------
(* get_rank *)

\* calculate_global_rank ranking a score behind the earlier requests that
\* stored the same score
rank_call_counted(score, rankings) ==
    [rank |-> clamp_rank(band_rank(score) + record_score(rankings, score)[score] - 1),
     user_rankings |-> record_score(rankings, score)]

\* calculate_global_rank as called: the rank, and the dict after line 234
rank_call(score, rankings) ==
    [rank |-> calculate_global_rank(score),
     user_rankings |-> record_score(rankings, score)]

\* lines 279-303: what the handler answers once fetch_mastodon_stats returned
\* st, and the dict user_rankings it leaves; arithmetic or comparison on a
\* value that is not a number raises TypeError in calculate_score, which the
\* handler's `except Exception` turns into a 500
get_rank_result(h, st, rankings) ==
    IF ~(IsNum(st.followers) /\ IsNum(st.following) /\ IsNum(st.tweets)
         /\ IsNum(st.impressions))
    THEN [response |-> [status |-> 500, detail |-> "Error processing request"],
          user_rankings |-> rankings]
    ELSE LET score == calculate_score(st.followers.v, st.following.v,
                                      st.tweets.v, st.impressions.v)
             ranked == rank_call(score, rankings)
         IN  [response |->
                [status |-> 200, handle |-> lstrip_at(h),
                 followers |-> st.followers.v, following |-> st.following.v,
                 tweets |-> st.tweets.v, impressions |-> st.impressions.v,
                 score |-> score, global_rank |-> ranked.rank,
                 total_users |-> TOTAL_USERS],
              user_rankings |-> ranked.user_rankings]

----------------------------------------------------------------------------
(* The request pipeline as a state machine *)

PipelineInit ==
    /\ pc = "idle"
    /\ handle = <<>>
    /\ stripped = <<>>
    /\ username = <<>>
    /\ instances_to_try = <<>>
    /\ idx = 0
    /\ queried = <<>>
    /\ nfailed = 0
    /\ alldown = TRUE
    /\ lastkind = "none"
    /\ winner = NoAnswer
    /\ stats = NoStats
    /\ response = NoResponse
    /\ user_rankings = << >>
    /\ log = <<>>
    /\ served = 0

\* POST /api/rank arrives: get_rank calls fetch_mastodon_stats, which runs
\* lines 81-90 and sends the first GET
Request(h) ==
    /\ pc = "idle"
    /\ pc' = "fetch"
    /\ handle' = h
    /\ stripped' = lstrip_at(h)
    /\ username' = username_for(lstrip_at(h))
    /\ instances_to_try' = instances_for(lstrip_at(h))
    /\ idx' = 1
    /\ queried' = <<instances_for(lstrip_at(h))[1]>>
    /\ served' = served + 1
    /\ UNCHANGED <<nfailed, alldown, lastkind, winner, stats, response, user_rankings, log>>
    /\ UNCHANGED <<rank_vars, score_vars>>

\* the handler finishes with the stats st
Finish(st, all_down) ==
    LET res == get_rank_result(handle, st, user_rankings)
    IN  /\ pc' = "done"
        /\ stats' = st
        /\ response' = res.response
        /\ user_rankings' = res.user_rankings
        /\ log' = Append(log, [handle |-> handle, alldown |-> all_down,
                               response |-> res.response])
        /\ UNCHANGED <<idx, queried>>

\* the pending GET completes with ans; the loop body runs, and the handler
\* either returns the instance's stats, sends the GET to the next instance,
\* or, the list exhausted, falls back to generate_demo_stats (lines 93-135)
Query(ans) ==
    /\ pc = "fetch"
    /\ LET st == fetch_attempt(ans)
           down == alldown /\ ans.exc
       IN  /\ alldown' = down
           /\ lastkind' = AnswerKind(ans)
           /\ nfailed' = IF AnswerKind(ans) = "found" THEN nfailed ELSE nfailed + 1
           /\ IF st # NoStats
              THEN /\ winner' = ans
                   /\ Finish(st, down)
              ELSE /\ winner' = winner
                   /\ IF idx < Len(instances_to_try)
                      THEN /\ idx' = idx + 1
                           /\ queried' = Append(queried, instances_to_try[idx + 1])
                           /\ UNCHANGED <<pc, stats, response, user_rankings, log>>
                      ELSE Finish(generate_demo_stats(stripped), down)
    /\ UNCHANGED <<handle, stripped, username, instances_to_try, served>>
    /\ UNCHANGED <<rank_vars, score_vars>>

\* the process takes the next request
NextRequest ==
    /\ pc = "done"
    /\ served < MaxRequests
    /\ pc' = "idle"
    /\ handle' = <<>>
    /\ stripped' = <<>>
    /\ username' = <<>>
    /\ instances_to_try' = <<>>
    /\ idx' = 0
    /\ queried' = <<>>
    /\ nfailed' = 0
    /\ alldown' = TRUE
    /\ lastkind' = "none"
    /\ winner' = NoAnswer
    /\ stats' = NoStats
    /\ response' = NoResponse
    /\ UNCHANGED <<user_rankings, log, served>>
    /\ UNCHANGED <<rank_vars, score_vars>>

----------------------------------------------------------------------------
(* The pure functions applied to bounded inputs *)

\* scores within Near hundredths of the band boundaries (0, 10, 50, 100)
\* and of 200, and a coarse grid from negative scores to above 200
Near == 2
GridMax == 20
GridStep == 1237

ScoreSamples ==
    {b + d : b \in {0, 1000, 5000, 10000, 20000}, d \in (-Near)..Near}
    \cup {k * GridStep : k \in (-GridMax)..GridMax}

RankIdle == s1 = 0 /\ s2 = 0 /\ r1 = 0 /\ r2 = 0 /\ rpc = "idle"

RankInit ==
    /\ s1 \in ScoreSamples
    /\ s2 \in ScoreSamples
    /\ s1 <= s2
    /\ r1 = 0
    /\ r2 = 0
    /\ rpc = "in"

ApplyRank ==
    /\ rpc = "in"
    /\ rpc' = "out"
    /\ r1' = calculate_global_rank(s1)
    /\ r2' = calculate_global_rank(s2)
    /\ UNCHANGED <<s1, s2, pipeline_vars, score_vars>>

FollowerSamples == {0, 7, 999, 25000}
FollowingSamples == {0, 1, 5, 3000}
TweetSamples == {0, 450, 10000, 20000}
ImpressionSamples == {0, 1234, 50000, 200000}
Deltas == {1, 13, 5000}

ScoreInputs ==
    [followers : FollowerSamples, following : FollowingSamples,
     tweets : TweetSamples, impressions : ImpressionSamples]

NoInput == [followers |-> 0, following |-> 0, tweets |-> 0, impressions |-> 0]

ScoreIdle ==
    lo = NoInput /\ hi = NoInput /\ arg = "none" /\ sc_lo = -1 /\ sc_hi = -1 /\ spc = "idle"

ScoreInit ==
    /\ lo \in ScoreInputs
    /\ arg \in {"followers", "following", "tweets", "impressions"}
    /\ \E d \in Deltas : hi = [lo EXCEPT ![arg] = @ + d]
    /\ sc_lo = -1
    /\ sc_hi = -1
    /\ spc = "in"

ApplyScore ==
    /\ spc = "in"
    /\ spc' = "out"
    /\ sc_lo' = calculate_score(lo.followers, lo.following, lo.tweets, lo.impressions)
    /\ sc_hi' = calculate_score(hi.followers, hi.following, hi.tweets, hi.impressions)
    /\ UNCHANGED <<lo, hi, arg, pipeline_vars, rank_vars>>

----------------------------------------------------------------------------
(* Specifications *)

vars == <<pipeline_vars, rank_vars, score_vars>>

\* one request to a fresh process, any handle, any upstream behaviour
Init == PipelineInit /\ RankIdle /\ ScoreIdle
Next ==
    \/ \E h \in Handles : Request(h)
    \/ \E ans \in Answers : Query(ans)
Spec == Init /\ [][Next]_vars

\* one process serving up to MaxRequests requests, one after the other;
\* every instance is either unreachable or knows the account
SessionHandles == { <<"a">>, <<"@", "B", "a">>, <<"a", "@", "m">> }
SessionAnswers == { ConnError, Json(Num(40), Num(2), Num(250)) }
NextSession ==
    \/ \E h \in SessionHandles : Request(h)
    \/ \E ans \in SessionAnswers : Query(ans)
    \/ NextRequest
SpecSession == Init /\ [][NextSession]_vars

\* calculate_global_rank on pairs of scores
InitRank == PipelineInit /\ RankInit /\ ScoreIdle
SpecRank == InitRank /\ [][ApplyRank]_vars

\* calculate_score on pairs of inputs
InitScore == PipelineInit /\ RankIdle /\ ScoreInit
SpecScore == InitScore /\ [][ApplyScore]_vars

----------------------------------------------------------------------------
(* Properties *)

\* str.strip() on blanks, and the normal form of a handle as the
\* specification words it: surrounding blanks trimmed, one leading "@" removed
RECURSIVE lstrip_blank(_)
lstrip_blank(s) == IF s # <<>> /\ Head(s) = " " THEN lstrip_blank(Tail(s)) ELSE s
RECURSIVE rstrip_blank(_)
rstrip_blank(s) ==
    IF s # <<>> /\ s[Len(s)] = " " THEN rstrip_blank(SubSeq(s, 1, Len(s) - 1)) ELSE s
trim(s) == rstrip_blank(lstrip_blank(s))
strip_one_at(s) == IF s # <<>> /\ Head(s) = "@" THEN Tail(s) ELSE s
normalize(h) == trim(strip_one_at(trim(h)))

\* C1: calculate_global_rank returns a rank between 1 and 15,000,000 for
\* every score: negative, zero, on a band boundary, above 200.
Thm_C1_RankWithinPopulation ==
    rpc = "out" => /\ 1 <= r1 /\ r1 <= TOTAL_USERS
                   /\ 1 <= r2 /\ r2 <= TOTAL_USERS

\* a negative score clamped to the last rank and a score above 200 clamped to 1
Wit_C1_BothClampsActed ==
    rpc = "out" /\ s1 < 0 /\ r1 = TOTAL_USERS /\ s2 > 20000 /\ r2 = 1

\* C2: calculate_global_rank is non-increasing in the score: the higher of
\* two scores never gets the larger rank number, band boundaries included.
Thm_C2_RankMonotone == rpc = "out" => (s1 <= s2 /\ r2 <= r1)

\* the two scores on either side of the boundary at 100
Wit_C2_AcrossBoundary == rpc = "out" /\ s1 = 9999 /\ s2 = 10000 /\ r2 < r1

\* C3: a request whose handle is empty, or empty once normalized, is
\* answered 400.
Cex_C3_EmptyHandleRejected ==
    (pc = "done" /\ normalize(handle) = <<>>) => response.status = 400

\* C4: whatever the instances do, a request with a non-empty handle (one
\* that is not empty once normalized either) is answered 200, with an
\* instance's stats or the demo stats, never 500.
Cex_C4_UpstreamNeverSurfaced ==
    (pc = "done" /\ normalize(handle) # <<>>) =>
        /\ response.status = 200
        /\ (winner # NoAnswer \/ stats = generate_demo_stats(stripped))

\* C5: with every instance unreachable, two requests for the same handle
\* served by one process get the same 200 payload, whatever was served in
\* between.
Thm_C5_DemoPayloadRepeats ==
    \A i, j \in 1..Len(log) :
        (log[i].alldown /\ log[j].alldown /\ log[i].handle = log[j].handle) =>
            /\ log[i].response.status = 200
            /\ log[i].response = log[j].response

\* the same handle answered from demo stats before and after a request
\* that was answered from an instance
Wit_C5_RepeatAroundRealData ==
    /\ Len(log) = 3
    /\ log[1].alldown /\ ~log[2].alldown /\ log[3].alldown
    /\ log[1].handle = log[3].handle
    /\ DOMAIN user_rankings # {}

\* C6: the handle looked up and the handle echoed are the request's handle
\* with exactly one leading "@" removed and surrounding blanks trimmed.
Cex_C6_HandleNormalized ==
    pc = "done" =>
        /\ stripped = normalize(handle)
        /\ response.status = 200 => response.handle = normalize(handle)

\* C7: calculate_score does not drop when followers, tweets or impressions
\* rise, does not rise when following rises above followers, and following
\* = 0 scores as following = 1 (the denominator is max(following, 1)).
Thm_C7_ScoreMonotone ==
    spc = "out" =>
        /\ arg \in {"followers", "tweets", "impressions"} => sc_lo <= sc_hi
        /\ (arg = "following" /\ lo.following > lo.followers) => sc_hi <= sc_lo
        /\ (arg = "following" /\ lo.following = 0 /\ hi.following = 1) => sc_hi = sc_lo

\* following raised from 0 to 1 with followers present, score unchanged
Wit_C7_ZeroFollowing ==
    /\ spc = "out" /\ arg = "following"
    /\ lo.following = 0 /\ hi.following = 1 /\ lo.followers > 0
    /\ sc_hi = sc_lo /\ sc_lo > 0

\* C8: the four counts of a 200 response are never negative.
Cex_C8_CountsNonNegative ==
    (pc = "done" /\ response.status = 200) =>
        /\ response.followers >= 0 /\ response.following >= 0
        /\ response.tweets >= 0 /\ response.impressions >= 0

\* C9: the instances are queried one at a time in list order, each at most
\* once, a federated handle's domain alone; a failed answer moves the loop to
\* the next instance, the first answer with followers > 0 or posts > 0 is the
\* result and ends the loop, and demo stats come only after all have failed.
Thm_C9_FirstSuccessInOrder ==
    /\ Len(queried) = idx
    /\ queried = SubSeq(instances_to_try, 1, idx)
    /\ \A i, j \in 1..Len(queried) : i # j => queried[i] # queried[j]
    /\ pc # "idle" =>
          IF HasAt(lstrip_at(handle))
          THEN instances_to_try = << <<"https://">> \o SplitDomain(lstrip_at(handle)) >>
          ELSE instances_to_try = MASTODON_INSTANCES
    /\ pc = "fetch" =>
          /\ lastkind # "found"
          /\ winner = NoAnswer
          /\ nfailed = idx - 1
    /\ (pc = "done" /\ lastkind = "found") =>
          /\ AnswerKind(winner) = "found"
          /\ nfailed = idx - 1
          /\ stats.followers = dict_get(winner.followers_count)
          /\ stats.following = dict_get(winner.following_count)
          /\ stats.tweets = dict_get(winner.statuses_count)
    /\ (pc = "done" /\ lastkind # "found") =>
          /\ winner = NoAnswer
          /\ nfailed = Len(instances_to_try)
          /\ queried = instances_to_try
          /\ stats = generate_demo_stats(stripped)

\* the third instance answered with stats after a raise and an empty profile
Wit_C9_ThirdInstanceWins ==
    /\ pc = "done" /\ lastkind = "found"
    /\ Len(queried) = 3 /\ nfailed = 2
    /\ stats.followers = Num(0) /\ stats.tweets = Num(2)

\* C10 as worded: every factor is capped at the ceiling, so the score never
\* exceeds the ceiling and followers or impressions beyond it change nothing.
Cex_C10_AllFactorsCapped ==
    spc = "out" =>
        /\ sc_lo <= 100 * FACTOR_CAP
        /\ (arg = "followers" /\ lo.followers >= 1000 * FACTOR_CAP) => sc_hi = sc_lo
        /\ (arg = "impressions" /\ lo.impressions >= 10000 * FACTOR_CAP) => sc_hi = sc_lo

\* C10 as amended: only the engagement ratio and the activity volume are
\* capped (at 10): tweets beyond 10,000 change nothing, the score is at most
\* 0.4 * followers / 1000 + 0.3 * impressions / 10000 + 0.2 * 10 + 0.1 * 10
\* (to rounding), and it keeps growing with followers and impressions.
Thm_C10_TwoFactorsCapped ==
    spc = "out" =>
        /\ (arg = "tweets" /\ lo.tweets >= 1000 * FACTOR_CAP) => sc_hi = sc_lo
        /\ 1000 * sc_lo <= 40 * lo.followers + 3 * lo.impressions
                           + 30000 * FACTOR_CAP + 500
        /\ (arg \in {"followers", "impressions"} /\ hi[arg] - lo[arg] >= 1000)
              => sc_hi > sc_lo

\* followers raised beyond 10,000 with the score already above 10: it grows
Wit_C10_ScoreGrowsPastCeiling ==
    /\ spc = "out" /\ arg = "followers"
    /\ lo.followers >= 1000 * FACTOR_CAP
    /\ sc_lo > 100 * FACTOR_CAP /\ sc_hi > sc_lo

====
